---- MODULE Spec2Model ----
(***************************************************************************)
(* Model of miniscript-lifter (src/main.rs): a command line tool that      *)
(* classifies a scriptPubKey, checks an inner script against the           *)
(* commitment of a P2WSH / P2SH template and asks the rust-miniscript      *)
(* engine whether the executable script parses and lifts.                  *)
(*                                                                         *)
(* Bytes are integers 0..255, byte strings are sequences of bytes, hex     *)
(* arguments are sequences of one-character strings.  A run is one         *)
(* invocation of main; the per-run variables are functions over the runs   *)
(* of the behaviour, so that two invocations against the same engine can   *)
(* be compared.                                                            *)
(***************************************************************************)
EXTENDS Integers, Sequences, FiniteSets, TLC

VARIABLES
    args,         \* args[r]: the positional arguments (hex strings) of run r
    pc,           \* pc[r]: where run r stands in main / print_liftability
    input_bytes,  \* input_bytes[r]: hex::decode of args[0]        (main.rs:19)
    kind,         \* kind[r]: result of classify_script_pubkey     (main.rs:28)
    inner,        \* inner[r]: ws / rs / ts, the decoded 2nd argument
    script,       \* script[r]: the script handed to print_liftability
    insane_err,   \* insane_err[r]: the error bound at main.rs:118
    out,          \* out[r]: the lines printed on stdout
    code,         \* code[r]: the process exit code, -1 while running
    calls,        \* calls[r]: the library / helper calls made, in order
    engine        \* what the miniscript engine has answered, per script

vars == <<args, pc, input_bytes, kind, inner, script, insane_err, out, code,
          calls, engine>>

(***************************************************************************)
(* Bounds of the model.                                                    *)
(***************************************************************************)
\* longest executable script drawn as an input
MaxScriptLen == 2

\* opcodes the input scripts are made of: OP_1, OP_2
ScriptBytes == {81, 82}

Scripts == UNION {[1..n -> ScriptBytes] : n \in 0..MaxScriptLen}

(***************************************************************************)
(* hex::decode (hex crate), as called at main.rs:19 and main.rs:103.       *)
(***************************************************************************)
HexChars == <<"0", "1", "2", "3", "4", "5", "6", "7", "8", "9",
              "a", "b", "c", "d", "e", "f">>

HexUpper == <<"0", "1", "2", "3", "4", "5", "6", "7", "8", "9",
              "A", "B", "C", "D", "E", "F">>

\* value of one hex digit, -1 when the character is no hex digit
HexVal(c) ==
    IF \E k \in 1..16 : HexChars[k] = c
    THEN (CHOOSE k \in 1..16 : HexChars[k] = c) - 1
    ELSE IF \E k \in 1..16 : HexUpper[k] = c
    THEN (CHOOSE k \in 1..16 : HexUpper[k] = c) - 1
    ELSE -1

\* hex::decode: odd length is rejected first, then any non-hex character
HexDecode(s) ==
    IF Len(s) % 2 # 0
    THEN [ok |-> FALSE, err |-> "Odd number of digits", bytes |-> <<>>]
    ELSE IF \E i \in 1..Len(s) : HexVal(s[i]) = -1
    THEN [ok |-> FALSE, err |-> "Invalid character", bytes |-> <<>>]
    ELSE [ok |-> TRUE, err |-> "",
          bytes |-> [i \in 1..(Len(s) \div 2) |->
                        16 * HexVal(s[2 * i - 1]) + HexVal(s[2 * i])]]

\* hex_to_script swallowing the decode error into an empty script
hex_to_script_lossy(s) ==
    LET d == HexDecode(s)
    IN  IF d.ok THEN d ELSE [ok |-> TRUE, err |-> "", bytes |-> <<>>]

\* fn hex_to_script: the decode error is wrapped as "invalid hex: {e}"
hex_to_script(s) ==
    LET d == HexDecode(s)
    IN  IF d.ok THEN d ELSE [d EXCEPT !.err = "invalid hex: " \o d.err]

\* lower-case hex rendering of a byte string (how the inputs are written)
HexEncode(b) ==
    [i \in 1..(2 * Len(b)) |->
        LET byte == b[(i + 1) \div 2]
        IN  IF i % 2 = 1 THEN HexChars[(byte \div 16) + 1]
                         ELSE HexChars[(byte % 16) + 1]]

\* upper-case hex rendering
HexEncodeUpper(b) ==
    [i \in 1..(2 * Len(b)) |->
        LET byte == b[(i + 1) \div 2]
        IN  IF i % 2 = 1 THEN HexUpper[(byte \div 16) + 1]
                         ELSE HexUpper[(byte % 16) + 1]]

(***************************************************************************)
(* classify_script_pubkey (main.rs:145-163).  Rust indexes slices with a   *)
(* bounds check that panics; `&&` evaluates left to right and stops at the *)
(* first false operand.                                                    *)
(***************************************************************************)
\* one `b.len() == n && b[i] == v && ...` condition: "yes", "no", or
\* "panic" when an index at or beyond b.len() is read
RECURSIVE ByteTests(_, _)
ByteTests(b, tests) ==
    IF tests = <<>> THEN "yes"
    ELSE LET i == tests[1][1]
             v == tests[1][2]
         IN  IF i >= Len(b) THEN "panic"
             ELSE IF b[i + 1] # v THEN "no"
             ELSE ByteTests(b, Tail(tests))

Shape(b, n, tests) == IF Len(b) # n THEN "no" ELSE ByteTests(b, tests)

IsP2wpkh(b) == Shape(b, 22, <<<<0, 0>>, <<1, 20>>>>)

IsP2wsh(b) == Shape(b, 34, <<<<0, 0>>, <<1, 32>>>>)

\* the P2SH test without the trailing OP_EQUAL byte
IsP2sh_no_trailer(b) == Shape(b, 23, <<<<0, 169>>, <<1, 20>>>>)

IsP2sh(b) == Shape(b, 23, <<<<0, 169>>, <<1, 20>>, <<22, 135>>>>)

IsP2tr(b) == Shape(b, 34, <<<<0, 81>>, <<1, 32>>>>)

\* the four tests in source order; "None" is Option::None
classify_script_pubkey(b) ==
    IF IsP2wpkh(b) # "no"
    THEN (IF IsP2wpkh(b) = "yes" THEN "P2WPKH" ELSE "panic")
    ELSE IF IsP2wsh(b) # "no"
    THEN (IF IsP2wsh(b) = "yes" THEN "P2WSH" ELSE "panic")
    ELSE IF IsP2sh(b) # "no"
    THEN (IF IsP2sh(b) = "yes" THEN "P2SH" ELSE "panic")
    ELSE IF IsP2tr(b) # "no"
    THEN (IF IsP2tr(b) = "yes" THEN "P2TR" ELSE "panic")
    ELSE "None"

(***************************************************************************)
(* The digests (bitcoin::hashes), called at main.rs:172 and main.rs:187.   *)
(* SHA256 and HASH160 are not computed bit by bit: each is a fixed-width   *)
(* function that is collision-free on byte strings shorter than its width  *)
(* (a length byte, the bytes, padding, all offset by a per-digest salt).   *)
(***************************************************************************)
Digest(s, width, salt) ==
    [i \in 1..width |->
        IF i = 1 THEN (Len(s) + salt) % 256
        ELSE IF i - 1 <= Len(s) THEN (s[i - 1] + salt + i) % 256
        ELSE (salt + i) % 256]

Sha256(s) == Digest(s, 32, 106)

Hash160(s) == Digest(s, 20, 60)

\* &b[from..to] of a byte string (0-based, `to` exclusive)
Slice(b, from, to) == SubSeq(b, from + 1, to)

\* verify_p2wsh_matches comparing only the leading byte of the program
verify_p2wsh_matches_first_byte(spk, witness_script) ==
    IF Len(spk) # 34 \/ spk[1] # 0 \/ spk[2] # 32
    THEN [ok |-> FALSE, err |-> "not a P2WSH scriptPubKey"]
    ELSE IF Slice(spk, 2, 3) = Slice(Sha256(witness_script), 0, 1)
    THEN [ok |-> TRUE, err |-> ""]
    ELSE [ok |-> FALSE,
          err |-> "witnessScript does not match P2WSH witness program (expected sha256(witnessScript))"]

\* fn verify_p2wsh_matches (main.rs:166-178)
verify_p2wsh_matches(spk, witness_script) ==
    IF Len(spk) # 34 \/ spk[1] # 0 \/ spk[2] # 32
    THEN [ok |-> FALSE, err |-> "not a P2WSH scriptPubKey"]
    ELSE IF Slice(spk, 2, 34) = Sha256(witness_script)
    THEN [ok |-> TRUE, err |-> ""]
    ELSE [ok |-> FALSE,
          err |-> "witnessScript does not match P2WSH witness program (expected sha256(witnessScript))"]

\* verify_p2sh_matches taking the commitment slice one byte short
verify_p2sh_matches_short_slice(spk, redeem_script) ==
    IF ~(Len(spk) = 23 /\ spk[1] = 169 /\ spk[2] = 20 /\ spk[23] = 135)
    THEN [ok |-> FALSE, err |-> "not a P2SH scriptPubKey"]
    ELSE IF Slice(spk, 2, 21) = Hash160(redeem_script)
    THEN [ok |-> TRUE, err |-> ""]
    ELSE [ok |-> FALSE,
          err |-> "redeemScript does not match P2SH redeem hash (expected hash160(redeemScript))"]

\* fn verify_p2sh_matches (main.rs:181-193)
verify_p2sh_matches(spk, redeem_script) ==
    IF ~(Len(spk) = 23 /\ spk[1] = 169 /\ spk[2] = 20 /\ spk[23] = 135)
    THEN [ok |-> FALSE, err |-> "not a P2SH scriptPubKey"]
    ELSE IF Slice(spk, 2, 22) = Hash160(redeem_script)
    THEN [ok |-> TRUE, err |-> ""]
    ELSE [ok |-> FALSE,
          err |-> "redeemScript does not match P2SH redeem hash (expected hash160(redeemScript))"]

(***************************************************************************)
(* The rust-miniscript engine, called at main.rs:108, 112, 118 and 122.    *)
(* Its answer on a script is a fixed but unknown function of the script:   *)
(* the first call on a script draws the engine's verdict and `engine`      *)
(* keeps it, so that every later call, in any run, gets the same answer.   *)
(*   class "sane"      both parsers accept the script                      *)
(*   class "insane"    structurally valid, fails the sanity checks         *)
(*   class "malformed" no Miniscript at all                                *)
(* Miniscript::parse_insane parses with ExtParams::insane(), i.e. without  *)
(* the sanity checks; Miniscript::parse runs the same parser and then the  *)
(* sanity checks, so whatever parse accepts parse_insane accepts too.      *)
(***************************************************************************)
StructErrs == {"unexpected token", "non-B top level"}

SanityErrs == {"all spend paths must require a signature"}

LiftErrs == {"branch exceeds resource limits"}

EngineVerdicts ==
    {[class |-> "sane", relaxed_err |-> "", strict_err |-> "", lift_err |-> l] :
        l \in {""} \cup LiftErrs}
    \cup
    {[class |-> "insane", relaxed_err |-> "", strict_err |-> e, lift_err |-> l] :
        e \in SanityErrs, l \in {""} \cup LiftErrs}
    \cup
    {[class |-> "malformed", relaxed_err |-> e1, strict_err |-> e2, lift_err |-> ""] :
        e1 \in StructErrs, e2 \in StructErrs}

\* the verdicts the engine may give on script s, given what it has answered
Consult(s) == IF s \in DOMAIN engine THEN {engine[s]} ELSE EngineVerdicts

Remember(s, v) == [t \in DOMAIN engine \cup {s} |-> IF t = s THEN v ELSE engine[t]]

\* Miniscript::<_, Segwitv0>::parse_insane(script): the relaxed parse
parse_insane(v) ==
    IF v.class \in {"sane", "insane"}
    THEN [ok |-> TRUE, by |-> "parse_insane", err |-> ""]
    ELSE [ok |-> FALSE, by |-> "parse_insane", err |-> v.relaxed_err]

\* Miniscript::<_, Segwitv0>::parse(script): the strict (sanity-checked) parse
parse(v) ==
    IF v.class = "sane"
    THEN [ok |-> TRUE, by |-> "parse", err |-> ""]
    ELSE [ok |-> FALSE, by |-> "parse", err |-> v.strict_err]

\* ms.lift()
lift(v) == [ok |-> v.lift_err = "", by |-> "lift", err |-> v.lift_err]

(***************************************************************************)
(* Output.  A printed line is its fixed text (tag), the formatted value's  *)
(* origin (by) and text, and the script a rendering is made of.            *)
(***************************************************************************)
Line(tag, by, text, of) == [tag |-> tag, by |-> by, text |-> text, of |-> of]

Text(tag) == Line(tag, "", "", <<>>)

NoErr == [ok |-> TRUE, by |-> "", err |-> ""]

\* println!(...) of `lines`, then std::process::exit(c)
Exit(r, lines, c) ==
    /\ out' = [out EXCEPT ![r] = out[r] \o lines]
    /\ code' = [code EXCEPT ![r] = c]
    /\ pc' = [pc EXCEPT ![r] = "exit"]

Goto(r, p) ==
    /\ pc' = [pc EXCEPT ![r] = p]
    /\ UNCHANGED <<out, code>>

Called(r, f) == calls' = [calls EXCEPT ![r] = Append(calls[r], f)]

\* the Taproot arm probing the scriptPubKey instead of the tapscript
P2trProbe_spk(r) ==
    /\ pc[r] = "tapscript"
    /\ script' = [script EXCEPT ![r] = input_bytes[r]]
    /\ Goto(r, "probe")
    /\ UNCHANGED <<args, input_bytes, kind, inner, insane_err, calls, engine>>

\* the safe tier treating a lift error as a failure of the run
ProbeInsane_lift_fatal(r) ==
    /\ pc[r] = "probe"
    /\ \E v \in Consult(script[r]) :
        LET res == parse_insane(v)
        IN  /\ engine' = Remember(script[r], v)
            /\ IF res.ok
               THEN /\ calls' = [calls EXCEPT ![r] = calls[r] \o <<"parse_insane", "lift">>]
                    /\ IF lift(v).ok
                       THEN Exit(r, <<Line("LIFTABLE: SAFE", "", "", <<>>),
                                      Line("Miniscript: ", "parse_insane", "", script[r]),
                                      Line("Policy: ", "lift", "", script[r])>>, 0)
                       ELSE Exit(r, <<Line("NOT_LIFTABLE: ", "lift", lift(v).err, <<>>)>>, 3)
                    /\ UNCHANGED insane_err
               ELSE /\ calls' = [calls EXCEPT ![r] = Append(calls[r], "parse_insane")]
                    /\ insane_err' = [insane_err EXCEPT ![r] = res]
                    /\ Goto(r, "fallback")
    /\ UNCHANGED <<args, input_bytes, kind, inner, script>>

(***************************************************************************)
(* fn main (main.rs:11-100)                                                *)
(***************************************************************************)
\* main.rs:12-16
CheckArgs(r) ==
    /\ pc[r] = "start"
    /\ IF Len(args[r]) = 0
       THEN Exit(r, <<Text("NOT_LIFTABLE: missing hex argument")>>, 3)
       ELSE Goto(r, "decode")
    /\ UNCHANGED <<args, input_bytes, kind, inner, script, insane_err, calls, engine>>

\* main.rs:18-26
DecodeInput(r) ==
    /\ pc[r] = "decode"
    /\ Called(r, "hex::decode")
    /\ LET d == HexDecode(args[r][1])
       IN  IF d.ok
           THEN /\ input_bytes' = [input_bytes EXCEPT ![r] = d.bytes]
                /\ Goto(r, "classify")
           ELSE /\ Exit(r, <<Line("NOT_LIFTABLE: invalid hex - ", "hex::decode", d.err, <<>>)>>, 3)
                /\ UNCHANGED input_bytes
    /\ UNCHANGED <<args, kind, inner, script, insane_err, engine>>

\* main.rs:28: the scrutinee of the match; an index panic ends the process
\* with code 101
Classify(r) ==
    /\ pc[r] = "classify"
    /\ Called(r, "classify_script_pubkey")
    /\ LET k == classify_script_pubkey(input_bytes[r])
       IN  /\ kind' = [kind EXCEPT ![r] = k]
           /\ IF k = "panic" THEN Exit(r, <<>>, 101) ELSE Goto(r, "match")
    /\ UNCHANGED <<args, input_bytes, inner, script, insane_err, engine>>

\* main.rs:29-32: None => the input is itself the executable script
RawScript(r) ==
    /\ pc[r] = "match"
    /\ kind[r] = "None"
    /\ script' = [script EXCEPT ![r] = input_bytes[r]]
    /\ Goto(r, "probe")
    /\ UNCHANGED <<args, input_bytes, kind, inner, insane_err, calls, engine>>

\* main.rs:77-81
P2wpkhArm(r) ==
    /\ pc[r] = "match"
    /\ kind[r] = "P2WPKH"
    /\ Exit(r, <<Text("NOT_LIFTABLE: input is a P2WPKH scriptPubKey; there is no separate witnessScript. Provide the actual script you want to analyze, not the scriptPubKey")>>, 3)
    /\ UNCHANGED <<args, input_bytes, kind, inner, script, insane_err, calls, engine>>

\* the opening of the P2WSH, P2SH and P2TR arms (main.rs:35-46, 57-68,
\* 84-95): the second argument is required and decoded with hex_to_script
TakeInner(r, usage, label, next) ==
    IF Len(args[r]) < 2
    THEN /\ Exit(r, <<Text(usage)>>, 3)
         /\ UNCHANGED <<inner, calls>>
    ELSE /\ Called(r, "hex_to_script")
         /\ LET d == hex_to_script(args[r][2])
            IN  IF d.ok
                THEN /\ inner' = [inner EXCEPT ![r] = d.bytes]
                     /\ Goto(r, next)
                ELSE /\ Exit(r, <<Line(label, "hex_to_script", d.err, <<>>)>>, 3)
                     /\ UNCHANGED inner

\* main.rs:33-46
P2wshInner(r) ==
    /\ pc[r] = "match"
    /\ kind[r] = "P2WSH"
    /\ TakeInner(r, "NOT_LIFTABLE: input is a P2WSH scriptPubKey; provide the witnessScript hex as the second argument",
                 "NOT_LIFTABLE: witnessScript invalid hex - ", "verify")
    /\ UNCHANGED <<args, input_bytes, kind, script, insane_err, engine>>

\* main.rs:55-68
P2shInner(r) ==
    /\ pc[r] = "match"
    /\ kind[r] = "P2SH"
    /\ TakeInner(r, "NOT_LIFTABLE: input is a P2SH scriptPubKey; provide the redeemScript hex as the second argument",
                 "NOT_LIFTABLE: redeemScript invalid hex - ", "verify")
    /\ UNCHANGED <<args, input_bytes, kind, script, insane_err, engine>>

\* main.rs:82-95
P2trInner(r) ==
    /\ pc[r] = "match"
    /\ kind[r] = "P2TR"
    /\ TakeInner(r, "NOT_LIFTABLE: input is a P2TR (Taproot) scriptPubKey; provide the tapscript (tapleaf) hex as the second argument (SPK-tapscript verification not implemented)",
                 "NOT_LIFTABLE: tapscript invalid hex - ", "tapscript")
    /\ UNCHANGED <<args, input_bytes, kind, script, insane_err, engine>>

\* the verification result of the P2WSH / P2SH arm decides between
\* print_liftability(inner) and NOT_LIFTABLE: {msg}, exit 3
AfterVerify(r, res) ==
    IF res.ok
    THEN /\ script' = [script EXCEPT ![r] = inner[r]]
         /\ Goto(r, "probe")
    ELSE /\ Exit(r, <<Line("NOT_LIFTABLE: ", "verify", res.err, <<>>)>>, 3)
         /\ UNCHANGED script

\* main.rs:47-53
P2wshVerify(r) ==
    /\ pc[r] = "verify"
    /\ kind[r] = "P2WSH"
    /\ Called(r, "verify_p2wsh_matches")
    /\ AfterVerify(r, verify_p2wsh_matches(input_bytes[r], inner[r]))
    /\ UNCHANGED <<args, input_bytes, kind, inner, insane_err, engine>>

\* main.rs:69-75
P2shVerify(r) ==
    /\ pc[r] = "verify"
    /\ kind[r] = "P2SH"
    /\ Called(r, "verify_p2sh_matches")
    /\ AfterVerify(r, verify_p2sh_matches(input_bytes[r], inner[r]))
    /\ UNCHANGED <<args, input_bytes, kind, inner, insane_err, engine>>

\* main.rs:96-97: the tapscript is probed without any verification
P2trProbe(r) ==
    /\ pc[r] = "tapscript"
    /\ script' = [script EXCEPT ![r] = inner[r]]
    /\ Goto(r, "probe")
    /\ UNCHANGED <<args, input_bytes, kind, inner, insane_err, calls, engine>>

(***************************************************************************)
(* fn print_liftability (main.rs:107-134)                                  *)
(***************************************************************************)
\* the policy line printed after ms.lift()
PolicyLine(prefix, l, s) ==
    IF l.ok THEN Line(prefix, "lift", "", s)
    ELSE Line(prefix \o "<error: >", "lift", l.err, s)

\* main.rs:108-117, and the binding of insane_err at main.rs:118
ProbeInsane(r) ==
    /\ pc[r] = "probe"
    /\ \E v \in Consult(script[r]) :
        LET res == parse_insane(v)
        IN  /\ engine' = Remember(script[r], v)
            /\ IF res.ok
               THEN /\ calls' = [calls EXCEPT ![r] = calls[r] \o <<"parse_insane", "lift">>]
                    /\ Exit(r, <<Text("LIFTABLE: SAFE"),
                                 Line("Miniscript: ", "parse_insane", "", script[r]),
                                 PolicyLine("Policy: ", lift(v), script[r])>>, 0)
                    /\ UNCHANGED insane_err
               ELSE /\ Called(r, "parse_insane")
                    /\ insane_err' = [insane_err EXCEPT ![r] = res]
                    /\ Goto(r, "fallback")
    /\ UNCHANGED <<args, input_bytes, kind, inner, script>>

\* main.rs:118-132
ProbeFallback(r) ==
    /\ pc[r] = "fallback"
    /\ \E v \in Consult(script[r]) :
        LET res == parse(v)
        IN  /\ engine' = Remember(script[r], v)
            /\ IF res.ok
               THEN /\ calls' = [calls EXCEPT ![r] = calls[r] \o <<"parse", "lift">>]
                    /\ Exit(r, <<Line("LIFTABLE: UNSAFE - ", insane_err[r].by, insane_err[r].err, <<>>),
                                 Line("Miniscript (unchecked): ", "parse", "", script[r]),
                                 PolicyLine("Policy (from unchecked): ", lift(v), script[r])>>, 1)
               ELSE /\ Called(r, "parse")
                    /\ Exit(r, <<Line("NOT_LIFTABLE: ", res.by, res.err, <<>>)>>, 3)
    /\ UNCHANGED <<args, input_bytes, kind, inner, script, insane_err>>

(***************************************************************************)
(* The invocations the model draws.                                        *)
(***************************************************************************)
P2wshSpk(s) == <<0, 32>> \o Sha256(s)

P2shSpk(s) == <<169, 20>> \o Hash160(s) \o <<135>>

P2wpkhSpk == <<0, 20>> \o [i \in 1..20 |-> 0]

\* two Taproot outputs that differ in the 32 bytes of the output key
P2trSpks == {<<81, 32>> \o [i \in 1..32 |-> k] : k \in {17, 34}}

Templates ==
    {P2wshSpk(s) : s \in Scripts} \cup {P2shSpk(s) : s \in Scripts}
    \cup P2trSpks \cup {P2wpkhSpk}

\* byte strings around the template shapes: every length next to 22, 23 and
\* 34 and the short ones, with each leading byte pair and last byte
Probe(n, b0, b1, last) ==
    [i \in 1..n |-> IF i = 1 THEN b0 ELSE IF i = 2 THEN b1
                    ELSE IF i = n THEN last ELSE 0]

ClassifyProbes ==
    {Probe(n, b0, b1, last) :
        n \in {0, 1, 2, 21, 22, 23, 24, 33, 34, 35},
        b0 \in {0, 81, 169, 20}, b1 \in {20, 32, 0}, last \in {135, 0}}

\* strings hex::decode rejects: a non-hex character, an odd length
BadHex == {<<"z", "z">>, <<"5", "g">>, <<"5", "1", "5">>}

Arg0Set ==
    {HexEncode(b) : b \in Scripts \cup Templates}
    \cup {HexEncodeUpper(P2shSpk(s)) : s \in Scripts}
    \cup BadHex

Arg1Set == {HexEncode(s) : s \in Scripts} \cup BadHex

Invocations ==
    {<<>>}
    \cup {<<a>> : a \in Arg0Set \cup {HexEncode(b) : b \in ClassifyProbes}}
    \cup {<<a, b>> : a \in Arg0Set, b \in Arg1Set}

\* the invocations drawn when two runs are compared: one script pair, every
\* kind of template
PairScripts == {<<81>>, <<82>>}

PairArg0 ==
    {HexEncode(b) : b \in P2trSpks \cup {P2wpkhSpk, <<81>>, P2wshSpk(<<81>>), P2shSpk(<<81>>)}}
    \cup {<<"z", "z">>}

PairInvocations ==
    {<<>>}
    \cup {<<a>> : a \in {HexEncode(b) : b \in P2trSpks}}
    \cup {<<a, b>> : a \in PairArg0,
                     b \in {HexEncode(s) : s \in PairScripts} \cup {<<"5", "g">>}}

(***************************************************************************)
(* Specifications.                                                         *)
(***************************************************************************)
InitRuns(R, I) ==
    /\ args \in [R -> I]
    /\ pc = [r \in R |-> "start"]
    /\ input_bytes = [r \in R |-> <<>>]
    /\ kind = [r \in R |-> "unset"]
    /\ inner = [r \in R |-> <<>>]
    /\ script = [r \in R |-> <<>>]
    /\ insane_err = [r \in R |-> NoErr]
    /\ out = [r \in R |-> <<>>]
    /\ code = [r \in R |-> -1]
    /\ calls = [r \in R |-> <<>>]
    /\ engine = <<>>

\* one invocation
Init == InitRuns({1}, Invocations)

\* two invocations against the same engine
InitPair == InitRuns({1, 2}, PairInvocations)

Next ==
    \/ \E r \in DOMAIN pc : CheckArgs(r)
    \/ \E r \in DOMAIN pc : DecodeInput(r)
    \/ \E r \in DOMAIN pc : Classify(r)
    \/ \E r \in DOMAIN pc : RawScript(r)
    \/ \E r \in DOMAIN pc : P2wpkhArm(r)
    \/ \E r \in DOMAIN pc : P2wshInner(r)
    \/ \E r \in DOMAIN pc : P2shInner(r)
    \/ \E r \in DOMAIN pc : P2trInner(r)
    \/ \E r \in DOMAIN pc : P2wshVerify(r)
    \/ \E r \in DOMAIN pc : P2shVerify(r)
    \/ \E r \in DOMAIN pc : P2trProbe(r)
    \/ \E r \in DOMAIN pc : ProbeInsane(r)
    \/ \E r \in DOMAIN pc : ProbeFallback(r)

Spec == Init /\ [][Next]_vars

SpecPair == InitPair /\ [][Next]_vars

(***************************************************************************)
(* Vocabulary of the properties.                                           *)
(***************************************************************************)
Runs == DOMAIN pc

Done(r) == pc[r] = "exit"

Has(r, f) == \E i \in 1..Len(calls[r]) : calls[r][i] = f

Count(r, f) == Cardinality({i \in 1..Len(calls[r]) : calls[r][i] = f})

\* run r reached print_liftability's parsers
Probed(r) == Has(r, "parse_insane") \/ Has(r, "parse")

\* the engine's answers on the script run r probed
StrictOk(r) == parse(engine[script[r]]).ok

RelaxedOk(r) == parse_insane(engine[script[r]]).ok

FirstArgOk(r) == Len(args[r]) >= 1 /\ HexDecode(args[r][1]).ok

SecondArgOk(r) == Len(args[r]) >= 2 /\ HexDecode(args[r][2]).ok

FirstArgBad(r) == Len(args[r]) >= 1 /\ ~HexDecode(args[r][1]).ok

SecondArgBad(r) == Len(args[r]) >= 2 /\ ~HexDecode(args[r][2]).ok

\* the run printed one line, an invalid-hex report
InvalidHexReport(r) ==
    /\ Len(out[r]) = 1
    /\ out[r][1].by \in {"hex::decode", "hex_to_script"}
    /\ out[r][1].tag \in {"NOT_LIFTABLE: invalid hex - ",
                          "NOT_LIFTABLE: witnessScript invalid hex - ",
                          "NOT_LIFTABLE: redeemScript invalid hex - ",
                          "NOT_LIFTABLE: tapscript invalid hex - "}

\* the run printed one line, a commitment mismatch
MismatchReport(r) ==
    /\ Len(out[r]) = 1
    /\ out[r][1].tag = "NOT_LIFTABLE: "
    /\ out[r][1].by = "verify"
    /\ out[r][1].text \in
         {"witnessScript does not match P2WSH witness program (expected sha256(witnessScript))",
          "redeemScript does not match P2SH redeem hash (expected hash160(redeemScript))"}

\* the 2nd argument's digest against the commitment bytes of the template
CommitmentDiffers(r) ==
    \/ kind[r] = "P2WSH" /\ SubSeq(input_bytes[r], 3, 34) # Sha256(HexDecode(args[r][2]).bytes)
    \/ kind[r] = "P2SH" /\ SubSeq(input_bytes[r], 3, 22) # Hash160(HexDecode(args[r][2]).bytes)

\* a and b have the same length and differ in exactly one byte
SingleByteDiff(a, b) ==
    /\ Len(a) = Len(b)
    /\ Cardinality({i \in 1..Len(a) : a[i] # b[i]}) = 1

(***************************************************************************)
(* C1.  Exit code 0 means safe: a run exits 0 (LIFTABLE: SAFE) only if the *)
(* script handed to the prober is accepted by the strict parse; a script   *)
(* that only the relaxed parse accepts never produces exit 0.              *)
(* The code calls the relaxed parse_insane first and reports SAFE on its   *)
(* success, so this fails.                                                 *)
(***************************************************************************)
C1_ExitZeroOnlyIfStrictAccepts ==
    \A r \in Runs :
        code[r] = 0 =>
            /\ Probed(r)
            /\ out[r][1] = Text("LIFTABLE: SAFE")
            /\ StrictOk(r)

(***************************************************************************)
(* C2.  Whenever the strict parse fails and the relaxed parse succeeds on  *)
(* the probed script, the run ends with exit code 1 and a first line       *)
(* LIFTABLE: UNSAFE - <strict-parse rejection error>.                      *)
(***************************************************************************)
C2_UnsafeScriptExitsOne ==
    \A r \in Runs :
        (Done(r) /\ Probed(r) /\ ~StrictOk(r) /\ RelaxedOk(r)) =>
            /\ code[r] = 1
            /\ out[r][1] = Line("LIFTABLE: UNSAFE - ", "parse",
                                engine[script[r]].strict_err, <<>>)

(***************************************************************************)
(* C3.  Two-tier monotonicity: in every run of the prober the strict parse *)
(* is the first engine call, the relaxed parser is called only after a     *)
(* strict-parse failure, and a script the strict parse accepts never ends  *)
(* NotParseable.                                                           *)
(***************************************************************************)
C3_StrictParseFirst ==
    \A r \in Runs :
        /\ \A i \in 1..Len(calls[r]) :
              calls[r][i] = "parse_insane" =>
                  /\ \E j \in 1..(i - 1) : calls[r][j] = "parse"
                  /\ ~StrictOk(r)
        /\ (Done(r) /\ Probed(r) /\ StrictOk(r)) =>
              /\ code[r] # 3
              /\ ~Has(r, "parse_insane")

(***************************************************************************)
(* C4.  On the P2WSH and P2SH paths a second argument whose digest differs *)
(* from the template's commitment ends the run with exit code 3 and one    *)
(* NOT_LIFTABLE: <mismatch reason> line, with no parse and no lift; the    *)
(* prober runs on these paths only after the verification returned Ok.     *)
(***************************************************************************)
C4_MismatchNeverProbed ==
    \A r \in Runs :
        /\ (kind[r] \in {"P2WSH", "P2SH"} /\ SecondArgOk(r) /\ CommitmentDiffers(r)) =>
              /\ ~Probed(r)
              /\ ~Has(r, "lift")
              /\ pc[r] \notin {"probe", "fallback"}
              /\ Done(r) => (code[r] = 3 /\ MismatchReport(r))
        /\ (kind[r] \in {"P2WSH", "P2SH"} /\ (Probed(r) \/ pc[r] \in {"probe", "fallback"})) =>
              /\ Has(r, "verify_p2wsh_matches") \/ Has(r, "verify_p2sh_matches")
              /\ ~CommitmentDiffers(r)
              /\ script[r] = HexDecode(args[r][2]).bytes

C4_Witness ==
    \E r \in Runs :
        /\ Done(r)
        /\ kind[r] = "P2SH"
        /\ SecondArgOk(r)
        /\ CommitmentDiffers(r)
        /\ Has(r, "verify_p2sh_matches")
        /\ code[r] = 3

\* the verification of run r was made and did not end the run
VerifiedOk(r) ==
    /\ Has(r, "verify_p2wsh_matches") \/ Has(r, "verify_p2sh_matches")
    /\ ~(Done(r) /\ out[r][Len(out[r])].by = "verify")

\* the verification of run r was made and ended the run with a mismatch
VerifiedMismatch(r) ==
    /\ Has(r, "verify_p2wsh_matches") \/ Has(r, "verify_p2sh_matches")
    /\ Done(r) /\ code[r] = 3 /\ MismatchReport(r)

(***************************************************************************)
(* C5.  Commitment round trip: verifying S against 00 20 SHA256(S) gives   *)
(* Ok and verifying any S' that differs from S in one byte gives Mismatch; *)
(* the same for a9 14 HASH160(S) 87.  Verification gives Ok exactly when   *)
(* the digest of the candidate equals the commitment slice of the template.*)
(***************************************************************************)
C5_CommitmentRoundTrip ==
    \A r \in Runs :
        /\ Has(r, "verify_p2wsh_matches") =>
              /\ VerifiedOk(r) \/ VerifiedMismatch(r)
              /\ VerifiedOk(r) <=> (SubSeq(input_bytes[r], 3, 34) = Sha256(inner[r]))
              /\ \A s \in Scripts :
                    input_bytes[r] = P2wshSpk(s) =>
                        /\ inner[r] = s => VerifiedOk(r)
                        /\ SingleByteDiff(inner[r], s) => VerifiedMismatch(r)
        /\ Has(r, "verify_p2sh_matches") =>
              /\ VerifiedOk(r) \/ VerifiedMismatch(r)
              /\ VerifiedOk(r) <=> (SubSeq(input_bytes[r], 3, 22) = Hash160(inner[r]))
              /\ \A s \in Scripts :
                    input_bytes[r] = P2shSpk(s) =>
                        /\ inner[r] = s => VerifiedOk(r)
                        /\ SingleByteDiff(inner[r], s) => VerifiedMismatch(r)

C5_Witness ==
    \E r \in Runs : \E s \in Scripts :
        /\ input_bytes[r] = P2shSpk(s)
        /\ SingleByteDiff(inner[r], s)
        /\ VerifiedMismatch(r)

\* the table of the four templates, each row on its own
TableP2wpkh(b) == Len(b) = 22 /\ b[1] = 0 /\ b[2] = 20

TableP2wsh(b) == Len(b) = 34 /\ b[1] = 0 /\ b[2] = 32

TableP2sh(b) == Len(b) = 23 /\ b[1] = 169 /\ b[2] = 20 /\ b[23] = 135

TableP2tr(b) == Len(b) = 34 /\ b[1] = 81 /\ b[2] = 32

(***************************************************************************)
(* C6.  Classification is total and exclusive: on every byte string,       *)
(* the empty one and those shorter than 2 bytes included, the classifier   *)
(* returns without failing, its result is the one the table gives, and no  *)
(* byte string satisfies two of the four template predicates.              *)
(***************************************************************************)
C6_ClassificationTotalExclusive ==
    \A r \in Runs :
        Has(r, "classify_script_pubkey") =>
            LET b == input_bytes[r]
            IN  /\ kind[r] \in {"P2WPKH", "P2WSH", "P2SH", "P2TR", "None"}
                /\ code[r] # 101
                /\ kind[r] = "P2WPKH" <=> TableP2wpkh(b)
                /\ kind[r] = "P2WSH" <=> TableP2wsh(b)
                /\ kind[r] = "P2SH" <=> TableP2sh(b)
                /\ kind[r] = "P2TR" <=> TableP2tr(b)
                /\ kind[r] = "None" <=>
                      ~(TableP2wpkh(b) \/ TableP2wsh(b) \/ TableP2sh(b) \/ TableP2tr(b))
                /\ Cardinality({p \in {<<1, IsP2wpkh(b)>>, <<2, IsP2wsh(b)>>,
                                       <<3, IsP2sh(b)>>, <<4, IsP2tr(b)>>} :
                                    p[2] # "no"}) <= 1

C6_Witness ==
    \E r \in Runs :
        /\ Has(r, "classify_script_pubkey")
        /\ Len(input_bytes[r]) < 2
        /\ kind[r] = "None"

(***************************************************************************)
(* C7 as stated.  Invalid hex in either argument ends the run with exit    *)
(* code 3 and an invalid-hex line, without probing any script; with an     *)
(* invalid first argument classification is not attempted.                 *)
(* Fails: with an Unrecognized or P2WPKH first argument the second         *)
(* argument is never decoded.                                              *)
(***************************************************************************)
C7_AnyInvalidHexExitsThree ==
    \A r \in Runs :
        (FirstArgBad(r) \/ SecondArgBad(r)) =>
            /\ ~Probed(r)
            /\ pc[r] \notin {"probe", "fallback"}
            /\ FirstArgBad(r) => ~Has(r, "classify_script_pubkey")
            /\ Done(r) => (code[r] = 3 /\ InvalidHexReport(r))

(***************************************************************************)
(* C7 amended.  Invalid hex in the first argument, or in the second        *)
(* argument when the first classifies as P2WSH, P2SH or P2TR, ends the run *)
(* with exit code 3 and one NOT_LIFTABLE invalid-hex line, without probing *)
(* any script; with an invalid first argument classification is not        *)
(* attempted.  With an Unrecognized or P2WPKH first argument the second    *)
(* argument is not decoded at all.                                         *)
(***************************************************************************)
C7_InvalidHexWhereDecoded ==
    \A r \in Runs :
        /\ (FirstArgBad(r) \/ (SecondArgBad(r) /\ kind[r] \in {"P2WSH", "P2SH", "P2TR"})) =>
              /\ ~Probed(r)
              /\ pc[r] \notin {"verify", "tapscript", "probe", "fallback"}
              /\ FirstArgBad(r) => ~Has(r, "classify_script_pubkey")
              /\ Done(r) => (code[r] = 3 /\ InvalidHexReport(r))
        /\ kind[r] \in {"None", "P2WPKH"} => ~Has(r, "hex_to_script")

C7_Witness ==
    \E r \in Runs :
        /\ Done(r)
        /\ kind[r] = "P2TR"
        /\ SecondArgBad(r)
        /\ code[r] = 3
        /\ out[r][1].tag = "NOT_LIFTABLE: tapscript invalid hex - "

(***************************************************************************)
(* C8.  The Taproot path skips commitment verification: with a P2TR first  *)
(* argument and a valid-hex second argument the tapscript goes to the      *)
(* prober with no commitment check, so two runs with the same second       *)
(* argument and any two P2TR templates end with the same output and exit   *)
(* code; without a second argument the run exits 3 without probing.        *)
(***************************************************************************)
C8_TaprootSkipsVerification ==
    /\ \A r \in Runs :
          kind[r] = "P2TR" =>
              /\ ~Has(r, "verify_p2wsh_matches") /\ ~Has(r, "verify_p2sh_matches")
              /\ Len(args[r]) < 2 => (~Probed(r) /\ (Done(r) => code[r] = 3))
              /\ (SecondArgOk(r) /\ (Done(r) \/ pc[r] \in {"probe", "fallback"})) =>
                    /\ script[r] = HexDecode(args[r][2]).bytes
                    /\ Done(r) => Probed(r)
    /\ \A r1, r2 \in Runs :
          (/\ Done(r1) /\ Done(r2)
           /\ kind[r1] = "P2TR" /\ kind[r2] = "P2TR"
           /\ SecondArgOk(r1) /\ SecondArgOk(r2)
           /\ args[r1][2] = args[r2][2]) =>
              (out[r1] = out[r2] /\ code[r1] = code[r2])

C8_Witness ==
    \E r1, r2 \in Runs :
        /\ Done(r1) /\ Done(r2)
        /\ kind[r1] = "P2TR" /\ kind[r2] = "P2TR"
        /\ input_bytes[r1] # input_bytes[r2]
        /\ SecondArgOk(r1) /\ SecondArgOk(r2)
        /\ args[r1][2] = args[r2][2]
        /\ code[r1] = 0 /\ code[r2] = 0

(***************************************************************************)
(* C9.  When both parses fail the run ends NotParseable with exit code 3   *)
(* and the NOT_LIFTABLE line carries the relaxed parser's error, not the   *)
(* strict parser's.                                                        *)
(***************************************************************************)
C9_NotParseableCarriesRelaxedError ==
    \A r \in Runs :
        (Done(r) /\ Probed(r) /\ ~StrictOk(r) /\ ~RelaxedOk(r)) =>
            /\ code[r] = 3
            /\ out[r] = <<Line("NOT_LIFTABLE: ", "parse_insane",
                               engine[script[r]].relaxed_err, <<>>)>>

\* the tier run r reported: the parser whose success led to lift
Tier(r) == IF Has(r, "parse") THEN "unsafe" ELSE "safe"

====
